---------------------------- MODULE Spec2Model ----------------------------
(***************************************************************************)
(* Model of the continuous-learning session of vim-tutorial:               *)
(*   src/src/vim_state.rs           VimMode, VimState, GoalType,           *)
(*                                  GoalDetector::check_goal               *)
(*   src/src/continuous_session.rs  ContinuousVimSession (start_exercise,  *)
(*                                  monitor_progress, stop_exercise,       *)
(*                                  convert_goal_definition,               *)
(*                                  read_vim_state_from_file, ...)         *)
(*                                                                         *)
(* Conventions.  Rust vectors are TLA+ sequences, so the Rust index i is   *)
(* the TLA+ index i + 1.  Option<T> is a record [some, v].  Strings that   *)
(* the code takes apart (mode names, operator names) are sequences of      *)
(* one-character strings; strings that are only compared are TLA+ strings. *)
(***************************************************************************)
EXTENDS Integers, Sequences, FiniteSets, TLC

(***************************************************************************)
(* Bounds of the model.                                                    *)
(***************************************************************************)
\* largest line / column number (1-based) that Vim writes to the status file
MaxNum == 2

(***************************************************************************)
(* Option<T>                                                               *)
(***************************************************************************)
Some(x) == [some |-> TRUE, v |-> x]

(***************************************************************************)
(* Strings taken apart by the code: sequences of characters.               *)
(***************************************************************************)
EmptyStr == << >>
S_normal == <<"n","o","r","m","a","l">>
S_insert == <<"i","n","s","e","r","t">>
S_visual == <<"v","i","s","u","a","l">>
S_visual_line == <<"v","i","s","u","a","l","_","l","i","n","e">>
S_visual_block == <<"v","i","s","u","a","l","_","b","l","o","c","k">>
S_command == <<"c","o","m","m","a","n","d">>
S_operator_ == <<"o","p","e","r","a","t","o","r","_">>
S_operator_d == S_operator_ \o <<"d">>
S_bogus == <<"b","o","g","u","s">>
S_operator_y == S_operator_ \o <<"y">>
S_operator == <<"o","p","e","r","a","t","o","r">>
S_Normal == <<"N","o","r","m","a","l">>

\* str::starts_with
StartsWith(s, p) == Len(s) >= Len(p) /\ SubSeq(s, 1, Len(p)) = p
\* str::strip_prefix(p).unwrap_or("") for a string already known to start with p
StripPrefix(s, p) == IF StartsWith(s, p) THEN SubSeq(s, Len(p) + 1, Len(s)) ELSE EmptyStr

(***************************************************************************)
(* vim_state.rs : VimMode, VimState                                        *)
(***************************************************************************)
Normal == [tag |-> "Normal", op |-> EmptyStr]
Insert == [tag |-> "Insert", op |-> EmptyStr]
Visual == [tag |-> "Visual", op |-> EmptyStr]
VisualLine == [tag |-> "VisualLine", op |-> EmptyStr]
VisualBlock == [tag |-> "VisualBlock", op |-> EmptyStr]
Command == [tag |-> "Command", op |-> EmptyStr]
OperatorPending(operator) == [tag |-> "OperatorPending", op |-> operator]

NoOperator == [some |-> FALSE, v |-> EmptyStr]
NoRegisters == [r \in {} |-> ""]

\* mode codes written by Vim's mode(): the ones containing Ctrl-V (\u{16})
CtrlVCodes == {"^V", "^Vs"}

\* variant: the arm ("n", _) comes before the arm ("n", "no")
from_vim_mode_normal_first(mode, mode_detailed, operator) ==
    IF mode = "n" THEN Normal
    ELSE IF mode = "i" THEN Insert
    ELSE IF mode = "v" THEN Visual
    ELSE IF mode = "V" THEN VisualLine
    ELSE IF mode \in CtrlVCodes THEN VisualBlock
    ELSE IF mode = "c" THEN Command
    ELSE Normal

\* VimMode::from_vim_mode(mode, mode_detailed, operator): the arms in order
from_vim_mode(mode, mode_detailed, operator) ==
    IF mode = "n" /\ mode_detailed = "no"
      THEN OperatorPending(IF operator.some THEN operator.v ELSE EmptyStr)
    ELSE IF mode = "n" THEN Normal
    ELSE IF mode = "i" THEN Insert
    ELSE IF mode = "v" THEN Visual
    ELSE IF mode = "V" THEN VisualLine
    ELSE IF mode \in CtrlVCodes THEN VisualBlock
    ELSE IF mode = "c" THEN Command
    ELSE Normal

\* usize has 64 bits, more than the integers of the checker hold.  A usize
\* is written by the signed reading of its 64 bits: u below 2^63 as u, and
\* 2^64 - k as -k.  Equality is not affected by the reading.

\* `x as usize` for an i32 x: the sign is extended, so -k becomes 2^64 - k,
\* which the signed reading writes -k
i32_as_usize(x) == x

\* the usize u is at most the integer n, for an n below 2^63: a usize whose
\* signed reading is negative is 2^63 or more
usize_at_most(u, n) == u >= 0 /\ u <= n

VimState(mode, line, col, operator, buffer, regs) ==
    [mode |-> mode, cursor_line |-> line, cursor_col |-> col,
     operator |-> operator, buffer_content |-> buffer, registers |-> regs]

(***************************************************************************)
(* vim_state.rs : GoalType and GoalDetector::check_goal                    *)
(***************************************************************************)
Position(line, col) == [kind |-> "Position", line |-> line, col |-> col]
Mode(m) == [kind |-> "Mode", mode |-> m]
TextContent(line, expected) == [kind |-> "TextContent", line |-> line, expected |-> expected]
RegisterContent(register, expected) ==
    [kind |-> "RegisterContent", register |-> register, expected |-> expected]
BufferChange == [kind |-> "BufferChange"]

\* The arms of the match in check_goal (lines 63-88), one operator each.

\* variant: only the line is compared
PositionArmLineOnly(goal, current_state) ==
    current_state.cursor_line = goal.line

\* GoalType::Position (64-66)
PositionArm(goal, current_state) ==
    current_state.cursor_line = goal.line /\ current_state.cursor_col = goal.col

\* variant: only the variant of the enum is compared, not its payload
ModeArmVariantOnly(goal, current_state) ==
    current_state.mode.tag = goal.mode.tag

\* GoalType::Mode (67): the derived PartialEq of VimMode
ModeArm(goal, current_state) ==
    current_state.mode = goal.mode

\* variant: the line is taken as 1-based
TextContentArmOneBased(goal, current_state) ==
    IF goal.line >= 1 /\ goal.line <= Len(current_state.buffer_content)
      THEN current_state.buffer_content[goal.line] = goal.expected
      ELSE FALSE

\* GoalType::TextContent (68-74): buffer_content.get(line)
TextContentArm(goal, current_state) ==
    IF goal.line < Len(current_state.buffer_content)
      THEN current_state.buffer_content[goal.line + 1] = goal.expected
      ELSE FALSE

\* variant: an absent register reads as the empty string
RegisterContentArmDefault(goal, current_state) ==
    IF goal.register \in DOMAIN current_state.registers
      THEN current_state.registers[goal.register] = goal.expected
      ELSE goal.expected = ""

\* GoalType::RegisterContent (81-87): registers.get(register)
RegisterContentArm(goal, current_state) ==
    IF goal.register \in DOMAIN current_state.registers
      THEN current_state.registers[goal.register] = goal.expected
      ELSE FALSE

\* variant: true only when the buffer is not the one the exercise starts with
BufferChangeArmCompared(goal, current_state) ==
    current_state.buffer_content # <<"">>

\* GoalType::BufferChange (75-80)
BufferChangeArm(goal, current_state) == TRUE

check_goal(goal, current_state) ==
    CASE goal.kind = "Position" -> PositionArm(goal, current_state)
      [] goal.kind = "Mode" -> ModeArm(goal, current_state)
      [] goal.kind = "TextContent" -> TextContentArm(goal, current_state)
      [] goal.kind = "BufferChange" -> BufferChangeArm(goal, current_state)
      [] goal.kind = "RegisterContent" -> RegisterContentArm(goal, current_state)

(***************************************************************************)
(* serde_json::Value, as far as convert_goal_definition inspects it.       *)
(* An object is a function from its keys to values.                        *)
(***************************************************************************)
JNull == [t |-> "null"]
JNum(n) == [t |-> "number", n |-> n]
JStr(s) == [t |-> "string", s |-> s]
JArr(a) == [t |-> "array", a |-> a]
JObj(o) == [t |-> "object", o |-> o]

\* Value::as_u64().unwrap_or(0): Some only for a non-negative integer
as_u64_or_0(j) == IF j.t = "number" /\ j.n >= 0 THEN j.n ELSE 0
\* Value::as_str().unwrap_or("")
as_str_or_empty(j) == IF j.t = "string" THEN j.s ELSE ""

(***************************************************************************)
(* continuous_session.rs : ExerciseGoal (description and hint are only     *)
(* displayed and are left out), FlowType, ContinuousExercise               *)
(***************************************************************************)
ExerciseGoal(goal_type, target) == [goal_type |-> goal_type, target |-> target]
FlowType == {"Sequential", "AnyOrder", "Parallel"}
ContinuousExercise(goals, flow_type) == [goals |-> goals, flow_type |-> flow_type]

(***************************************************************************)
(* continuous_session.rs : convert_goal_definition.  The outcome is        *)
(*   [res |-> "ok", goal |-> g]   Ok(Goal)                                 *)
(*   [res |-> "err", msg |-> m]   Err(anyhow!(m))                          *)
(*   [res |-> "panic"]            an index out of bounds (Vec / Map index) *)
(***************************************************************************)
ConvOk(g) == [res |-> "ok", goal |-> g]
ConvErr(m) == [res |-> "err", msg |-> m]
ConvPanic == [res |-> "panic"]

\* variant: the whole string is kept as the operator
convert_mode_keeping_prefix(mode_str) ==
    IF mode_str = S_normal THEN ConvOk(Mode(Normal))
    ELSE IF mode_str = S_insert THEN ConvOk(Mode(Insert))
    ELSE IF mode_str = S_visual THEN ConvOk(Mode(Visual))
    ELSE IF mode_str = S_visual_line THEN ConvOk(Mode(VisualLine))
    ELSE IF mode_str = S_visual_block THEN ConvOk(Mode(VisualBlock))
    ELSE IF mode_str = S_command THEN ConvOk(Mode(Command))
    ELSE IF StartsWith(mode_str, S_operator_)
      THEN ConvOk(Mode(OperatorPending(mode_str)))
    ELSE ConvErr("Unknown mode")

\* the match on mode_str (lines 684-696)
convert_mode(mode_str) ==
    IF mode_str = S_normal THEN ConvOk(Mode(Normal))
    ELSE IF mode_str = S_insert THEN ConvOk(Mode(Insert))
    ELSE IF mode_str = S_visual THEN ConvOk(Mode(Visual))
    ELSE IF mode_str = S_visual_line THEN ConvOk(Mode(VisualLine))
    ELSE IF mode_str = S_visual_block THEN ConvOk(Mode(VisualBlock))
    ELSE IF mode_str = S_command THEN ConvOk(Mode(Command))
    ELSE IF StartsWith(mode_str, S_operator_)
      THEN ConvOk(Mode(OperatorPending(StripPrefix(mode_str, S_operator_))))
    ELSE ConvErr("Unknown mode")

\* variant: a goal type that is not known is taken as buffer_change
convert_other_lenient(goal_type) == ConvOk(BufferChange)

\* the last arm of the match on goal_type (line 718)
convert_other(goal_type) == ConvErr("Unknown goal type")

convert_goal_definition(goal_def) ==
    LET target == goal_def.target IN
    CASE goal_def.goal_type = "position" ->
           IF target.t # "array" THEN ConvErr("Position target must be an array")
           ELSE IF Len(target.a) < 2 THEN ConvPanic
           ELSE ConvOk(Position(as_u64_or_0(target.a[1]), as_u64_or_0(target.a[2])))
      [] goal_def.goal_type = "mode" ->
           IF target.t # "string" THEN ConvErr("Mode target must be a string")
           ELSE convert_mode(target.s)
      [] goal_def.goal_type = "text" ->
           IF target.t # "object" THEN ConvErr("Text target must be an object")
           ELSE IF ~ ({"line", "expected"} \subseteq DOMAIN target.o) THEN ConvPanic
           ELSE ConvOk(TextContent(as_u64_or_0(target.o["line"]),
                                   as_str_or_empty(target.o["expected"])))
      [] goal_def.goal_type = "register" ->
           IF target.t # "object" THEN ConvErr("Register target must be an object")
           ELSE IF ~ ({"register", "expected"} \subseteq DOMAIN target.o) THEN ConvPanic
           ELSE ConvOk(RegisterContent(as_str_or_empty(target.o["register"]),
                                       as_str_or_empty(target.o["expected"])))
      [] goal_def.goal_type = "buffer_change" -> ConvOk(BufferChange)
      [] OTHER -> convert_other(goal_def.goal_type)

(***************************************************************************)
(* The status file /tmp/vim_continuous_status.json.                        *)
(*   [cond |-> "missing"]     the file does not exist                      *)
(*   [cond |-> "unreadable"]  fs::read_to_string fails for another reason  *)
(*   [cond |-> "content", lines |-> ...]                                   *)
(* Each line of the content is the sequence of its comma-separated parts;  *)
(* a part is a key prefix (LINE:, COL:, MODE:, DETAILED: or something      *)
(* else) and the text after it: a numeral (ok, n), text that does not      *)
(* parse as a number (~ok), or a mode code (str).                          *)
(***************************************************************************)
Part(key, ok, n, str) == [key |-> key, ok |-> ok, n |-> n, str |-> str]
NumPart(key, n) == Part(key, TRUE, n, "")
BadNumPart(key) == Part(key, FALSE, 0, "")
StrPart(key, str) == Part(key, FALSE, 0, str)

FileMissing == [cond |-> "missing", lines |-> << >>]
FileUnreadable == [cond |-> "unreadable", lines |-> << >>]
FileContent(lines) == [cond |-> "content", lines |-> lines]

\* the line UpdateStatus() of the Vim script writes (lines 296-303)
StatusLine(line_num, col_num, mode_str, mode_detailed) ==
    << NumPart("LINE", line_num), NumPart("COL", col_num),
       StrPart("MODE", mode_str), StrPart("DETAILED", mode_detailed) >>

\* the default state read_vim_state_from_file returns on a read error (509-516)
DefaultState == VimState(Normal, 0, 0, NoOperator, <<"">>, NoRegisters)

\* the fields before any part is parsed (lines 522-525)
InitialFields == [line_num |-> 1, col_num |-> 1, mode_str |-> "n", mode_detailed |-> "n"]

\* one part of the LINE: record (lines 531-539)
ParsePart(f, part) ==
    IF part.key = "LINE" THEN [f EXCEPT !.line_num = IF part.ok THEN part.n ELSE 1]
    ELSE IF part.key = "COL" THEN [f EXCEPT !.col_num = IF part.ok THEN part.n ELSE 1]
    ELSE IF part.key = "MODE" THEN [f EXCEPT !.mode_str = part.str]
    ELSE IF part.key = "DETAILED" THEN [f EXCEPT !.mode_detailed = part.str]
    ELSE f

RECURSIVE ParseParts(_, _)
ParseParts(f, parts) ==
    IF parts = << >> THEN f ELSE ParseParts(ParsePart(f, Head(parts)), Tail(parts))

\* the loop over content.lines(): the first line starting with LINE: is
\* parsed, every other line is skipped (lines 527-543)
RECURSIVE ParseLines(_)
ParseLines(lines) ==
    IF lines = << >> THEN InitialFields
    ELSE IF Head(lines) # << >> /\ Head(lines)[1].key = "LINE"
      THEN ParseParts(InitialFields, Head(lines))
    ELSE ParseLines(Tail(lines))

\* read_vim_state_from_file: Result<VimState>, as [ok, state]
ReadOk(state) == [ok |-> TRUE, state |-> state]
ReadErr == [ok |-> FALSE, state |-> DefaultState]

\* variant: the error of fs::read_to_string is passed on with `?`
read_propagating_error(file) ==
    IF file.cond # "content" THEN ReadErr ELSE ReadOk(DefaultState)

read_vim_state_from_file(file) ==
    IF file.cond # "content" THEN ReadOk(DefaultState)
    ELSE LET f == ParseLines(file.lines)
             vim_mode == from_vim_mode(f.mode_str, f.mode_detailed, NoOperator)
         IN ReadOk(VimState(vim_mode, i32_as_usize(f.line_num - 1),
                            i32_as_usize(f.col_num - 1),
                            NoOperator, <<"">>, NoRegisters))

(***************************************************************************)
(* Exercises the session is started with (ContinuousExercise values as     *)
(* the content loader deserializes them: any goal_type string, any target) *)
(***************************************************************************)
PosGoal(line, col) == ExerciseGoal("position", JArr(<<JNum(line), JNum(col)>>))
ModeGoal(s) == ExerciseGoal("mode", JStr(s))
TextGoal(line, expected) ==
    ExerciseGoal("text", JObj([k \in {"line", "expected"} |->
                                 IF k = "line" THEN JNum(line) ELSE JStr(expected)]))
BufferChangeGoal == ExerciseGoal("buffer_change", JNull)

ThreeGoals == <<PosGoal(0, 1), ModeGoal(S_insert), PosGoal(1, 0)>>
SeqThree == ContinuousExercise(ThreeGoals, "Sequential")
SeqSameSample ==
    ContinuousExercise(<<PosGoal(0, 0), ModeGoal(S_normal), BufferChangeGoal>>, "Sequential")
SeqOne == ContinuousExercise(<<ModeGoal(S_insert)>>, "Sequential")
AnyThree == ContinuousExercise(ThreeGoals, "AnyOrder")
ParBoth == ContinuousExercise(<<PosGoal(0, 0), ModeGoal(S_normal)>>, "Parallel")
ParNever == ContinuousExercise(<<PosGoal(0, 1), PosGoal(1, 0)>>, "Parallel")
BadKind == ContinuousExercise(<<PosGoal(0, 1), ExerciseGoal("bogus", JNull)>>, "Sequential")
BadMode == ContinuousExercise(<<PosGoal(0, 0), ModeGoal(S_bogus)>>, "Sequential")
NoGoals == ContinuousExercise(<< >>, "Sequential")

Exercises == {SeqThree, SeqSameSample, SeqOne, AnyThree, ParBoth, ParNever,
              BadKind, BadMode, NoGoals}

\* the (mode(), mode(1)) pairs Vim writes
ModePairs == {<<"n", "n">>, <<"n", "no">>, <<"i", "i">>}

\* what UpdateStatus() can have written: line('.') and col('.') are >= 1
VimStatusFiles ==
    { FileContent(<<StatusLine(l, c, m[1], m[2])>>) :
        l \in 1..MaxNum, c \in 1..MaxNum, m \in ModePairs }

\* the file is absent, unreadable, empty (read while being rewritten), or
\* holds a record with an unparsable number
FaultyStatusFiles ==
    { FileMissing, FileUnreadable, FileContent(<< >>),
      FileContent(<< <<BadNumPart("LINE"), NumPart("COL", 2), StrPart("MODE", "i")>> >>) }

\* what a poll of the status file can find
StatusFiles == VimStatusFiles \cup FaultyStatusFiles

(***************************************************************************)
(* content.rs : the step-mode content.  A step keeps cursor_end, the only  *)
(* field the monitor reads; an exercise is its steps; a chapter is its     *)
(* number and its exercises.  continuous_content.rs has the same shape     *)
(* with continuous exercises in place of exercises.                        *)
(***************************************************************************)
MaxChapter == 3
MaxMonitors == 2

NoCursor == [some |-> FALSE, v |-> <<0, 0>>]
StepData(cursor_end) == [cursor_end |-> cursor_end]
ExerciseData(steps) == [steps |-> steps]
ChapterData(number, exercises) == [number |-> number, exercises |-> exercises]

\* ContentLoader::get_chapter (content.rs 80-82) and
\* ContinuousContentLoader::get_chapter (continuous_content.rs 83-87): the
\* first chapter whose number field is chapter_num
get_chapter(chapters, chapter_num) ==
    LET found == {i \in 1..Len(chapters) : chapters[i].number = chapter_num} IN
    IF found = {} THEN [some |-> FALSE, v |-> ChapterData(0, << >>)]
    ELSE Some(chapters[CHOOSE i \in found : \A j \in found : i <= j])

\* get_chapter_count() as u8
get_chapter_count_as_u8(chapters) == Len(chapters) % 256

\* what read_line and the tests on the trimmed line make of a line typed at
\* a chapter menu: end of input, q / quit, a numeral, or other text
InputEof == [kind |-> "eof", n |-> 0]
InputQuit == [kind |-> "quit", n |-> 0]
InputText == [kind |-> "text", n |-> 0]
InputNumeral(n) == [kind |-> "numeral", n |-> n]

\* input.parse::<u8>(): a numeral is a u8 when it is in 0..255
parse_u8(input) ==
    IF input.kind = "numeral" /\ input.n >= 0 /\ input.n <= 255
      THEN Some(input.n) ELSE [some |-> FALSE, v |-> 0]

\* the range test of the menus (game.rs 106-107, main.rs 236)
menu_accepts(chapters, chapter_num) ==
    chapter_num >= 1 /\ chapter_num <= get_chapter_count_as_u8(chapters)

\* One pass of a chapter menu (game.rs 90-124, main.rs 219-256): what the
\* typed line leads to.
\*   "quit"; "invalid" (the menu is shown again); "start" with the chapter
\*   that is started; "not_found" (start_chapter finds no chapter)
MenuOutcome(kind, number) == [kind |-> kind, number |-> number]
StartChapterOutcome(chapters, chapter_num) ==
    IF get_chapter(chapters, chapter_num).some
      THEN MenuOutcome("start", chapter_num) ELSE MenuOutcome("not_found", chapter_num)
menu_select(chapters, input) ==
    IF input.kind = "eof" THEN StartChapterOutcome(chapters, 1)
    ELSE IF input.kind = "quit" THEN MenuOutcome("quit", 0)
    ELSE IF parse_u8(input).some
      THEN IF menu_accepts(chapters, parse_u8(input).v)
             THEN StartChapterOutcome(chapters, parse_u8(input).v)
             ELSE MenuOutcome("invalid", 0)
    ELSE MenuOutcome("invalid", 0)

(***************************************************************************)
(* State                                                                   *)
(***************************************************************************)
VARIABLES
    \* ContinuousVimSession (lines 59-68)
    current_exercise,     \* Option<ContinuousExercise>
    current_goal_index,   \* usize
    completed_goals,      \* Vec<bool>
    last_state,           \* Option<VimState>
    monitoring_active,    \* bool
    instruction_pane_id,  \* Option<String>
    \* /tmp/vim_continuous_progress.txt
    progress_file,
    \* control
    pc,                   \* where the caller of the session is
    result,               \* what the last call returned
    \* monitor_progress: the iteration's local current_state, and a record
    \* of what the latest iteration did
    current_state,
    sample_source,        \* "none", or what the latest read found: "file" / "default"
    evaluated,            \* goal indices passed to check_goal in the latest iteration
    \* GoalDetector::check_goal called on its own: arguments and return value
    check_goal_call,
    \* the same for convert_goal_definition, read_vim_state_from_file and
    \* VimMode::from_vim_mode
    convert_call,
    read_call,
    from_vim_mode_call,
    \* and for one pass of a chapter menu
    menu_call,
    \* run_continuous_mode and start_continuous_chapter (main.rs 170-332)
    chapter_pc,           \* where run_continuous_mode is
    chapter,              \* the exercises start_continuous_chapter iterates over
    exercise_index,       \* the index of its for loop
    stdin_eof,            \* standard input has reached its end
    \* VimTutorialGame (game.rs 13-18)
    current_chapter,          \* Option<ChapterData>
    current_exercise_index,   \* usize
    current_step_index,       \* usize
    \* step mode: control and environment
    game_pc,                  \* where the main thread is
    tmux_available,           \* `tmux -V` can be run
    vim_tutorial_status,      \* /tmp/vim_tutorial_status.json
    vim_tutorial_success,     \* /tmp/vim_tutorial_success.flag exists
    monitors                  \* the monitor_neovim_status threads

continuous_mode == <<chapter_pc, chapter, exercise_index, stdin_eof>>
game == <<current_chapter, current_exercise_index, current_step_index, game_pc,
          tmux_available, vim_tutorial_status, vim_tutorial_success, monitors>>
elsewhere == <<menu_call, continuous_mode, game>>

vars == <<current_exercise, current_goal_index, completed_goals, last_state,
          monitoring_active, instruction_pane_id, progress_file, pc, result,
          current_state, sample_source, evaluated, check_goal_call,
          convert_call, read_call, from_vim_mode_call, menu_call,
          continuous_mode, game>>

session == <<current_exercise, current_goal_index, completed_goals, last_state,
             monitoring_active, instruction_pane_id>>
iteration == <<current_state, sample_source, evaluated>>
calls == <<check_goal_call, convert_call, read_call, from_vim_mode_call>>

NoExercise == [some |-> FALSE, v |-> NoGoals]
NoState == [some |-> FALSE, v |-> DefaultState]
NoPane == [some |-> FALSE, v |-> ""]

\* contents of the progress file
Nothing == [kind |-> "nothing", n |-> 0]
GoalNumber(n) == [kind |-> "goal", n |-> n]
CompletedToken == [kind |-> "completed", n |-> 0]

\* Result<ExerciseResult> / Result<()> of the latest call
NoResult == [kind |-> "none", cause |-> ""]
Ok(r) == [kind |-> r, cause |-> ""]
Err(cause) == [kind |-> "Err", cause |-> cause]

\* variant: the flags of the previous exercise are kept
StaleFlags(n) == completed_goals

\* variant: one flag too few
OneFlagShort(n) == [i \in 1..(n - 1) |-> FALSE]

\* vec![false; n]
AllFalse(n) == [i \in 1..n |-> FALSE]

\* a call of check_goal: not made yet / made, with its return value
Call(applied, goal, state, ret) ==
    [applied |-> applied, goal |-> goal, state |-> state, ret |-> ret]
NoCall == Call(FALSE, BufferChange, DefaultState, FALSE)

\* a call of convert_goal_definition
ConvertCall(applied, goal_def, ret) ==
    [applied |-> applied, goal_def |-> goal_def, ret |-> ret]
NoConvertCall == ConvertCall(FALSE, BufferChangeGoal, ConvPanic)

\* a call of read_vim_state_from_file
ReadCall(applied, file, ret) == [applied |-> applied, file |-> file, ret |-> ret]
NoReadCall == ReadCall(FALSE, FileMissing, ReadOk(DefaultState))

\* a call of VimMode::from_vim_mode
FromVimModeCall(applied, mode, mode_detailed, operator, ret) ==
    [applied |-> applied, mode |-> mode, mode_detailed |-> mode_detailed,
     operator |-> operator, ret |-> ret]
NoFromVimModeCall == FromVimModeCall(FALSE, "n", "n", NoOperator, Normal)

\* a pass of a menu: the loaded chapters, the typed line, the outcome
MenuCall(applied, chapters, input, ret) ==
    [applied |-> applied, chapters |-> chapters, input |-> input, ret |-> ret]
NoMenuCall == MenuCall(FALSE, << >>, InputQuit, MenuOutcome("quit", 0))

\* run_continuous_mode has not been called
NoContinuousMode ==
    /\ chapter_pc = "not_called"
    /\ chapter = << >>
    /\ exercise_index = 0
    /\ stdin_eof = FALSE

NoChapter == [some |-> FALSE, v |-> ChapterData(0, << >>)]
NoMonitor == [alive |-> FALSE, target |-> <<0, 0>>, last_position |-> <<1, 1>>,
              success_triggered |-> FALSE, at |-> "read"]
Absent == [exists |-> FALSE, position |-> <<0, 0>>]

\* VimTutorialGame::new has not been called
NoGame ==
    /\ current_chapter = NoChapter
    /\ current_exercise_index = 0
    /\ current_step_index = 0
    /\ game_pc = "not_called"
    /\ tmux_available = FALSE
    /\ vim_tutorial_status = Absent
    /\ vim_tutorial_success = FALSE
    /\ monitors = [t \in 1..MaxMonitors |-> NoMonitor]

\* nothing but the session is in use
ElsewhereIdle == menu_call = NoMenuCall /\ NoContinuousMode /\ NoGame

\* no function is being called on its own
NoCalls ==
    /\ convert_call = NoConvertCall
    /\ read_call = NoReadCall
    /\ from_vim_mode_call = NoFromVimModeCall

\* ContinuousVimSession::new (lines 71-82); no progress file yet
NewSessionState ==
    /\ current_exercise = NoExercise
    /\ current_goal_index = 0
    /\ completed_goals = << >>
    /\ last_state = NoState
    /\ monitoring_active = FALSE
    /\ instruction_pane_id = NoPane
    /\ progress_file = Nothing
    /\ pc = "idle"
    /\ result = NoResult
    /\ current_state = DefaultState
    /\ sample_source = "none"
    /\ evaluated = {}

Init == NewSessionState /\ ElsewhereIdle /\ check_goal_call = NoCall /\ NoCalls

\* a chapter is started again from the menu: start_continuous_chapter makes
\* a new session (main.rs 274-275); the progress file stays as it is
NewSession ==
    /\ pc \in {"idle", "returned", "aborted"}
    /\ current_exercise' = NoExercise
    /\ current_goal_index' = 0
    /\ completed_goals' = << >>
    /\ last_state' = NoState
    /\ monitoring_active' = FALSE
    /\ instruction_pane_id' = NoPane
    /\ pc' = "idle"
    /\ result' = NoResult
    /\ current_state' = DefaultState
    /\ sample_source' = "none"
    /\ evaluated' = {}
    /\ UNCHANGED <<progress_file, calls, menu_call, game>>

(***************************************************************************)
(* start_exercise (lines 84-126).  outcome says how the environment        *)
(* answers: whether tmux is there, and whether the commands succeed.       *)
(***************************************************************************)
StartOutcomes == {"tmux_ok", "tmux_err_session", "tmux_err_script", "rpc_ok", "rpc_err"}

TopPane == Some("%0")

StartExercise(exercise, outcome) ==
    /\ pc = "idle"
    /\ UNCHANGED <<last_state, iteration, calls, menu_call, game>>
    /\ CASE outcome = "tmux_err_session" ->
              \* new-session or split-window fails (lines 137-158)
              /\ pc' = "aborted"
              /\ result' = Err("start_tmux_session")
              /\ UNCHANGED <<current_exercise, current_goal_index, completed_goals,
                             monitoring_active, instruction_pane_id, progress_file>>
         [] outcome = "tmux_err_script" ->
              \* the pane id is stored (208), then create_vim_script fails (215)
              /\ instruction_pane_id' = TopPane
              /\ pc' = "aborted"
              /\ result' = Err("create_vim_script")
              /\ UNCHANGED <<current_exercise, current_goal_index, completed_goals,
                             monitoring_active, progress_file>>
         [] outcome = "rpc_err" ->
              \* no tmux, and start_neovim fails (112)
              /\ pc' = "aborted"
              /\ result' = Err("start_neovim")
              /\ UNCHANGED <<current_exercise, current_goal_index, completed_goals,
                             monitoring_active, instruction_pane_id, progress_file>>
         [] outcome = "tmux_ok" /\ exercise.goals = << >> ->
              \* create_instruction_command removes the progress file (339)
              \* and indexes goals[0] (342)
              /\ instruction_pane_id' = TopPane
              /\ progress_file' = Nothing
              /\ pc' = "panicked"
              /\ result' = NoResult
              /\ UNCHANGED <<current_exercise, current_goal_index, completed_goals,
                             monitoring_active>>
         [] outcome \in {"tmux_ok", "rpc_ok"}
              /\ ~ (outcome = "tmux_ok" /\ exercise.goals = << >>) ->
              /\ IF outcome = "tmux_ok"
                   THEN /\ instruction_pane_id' = TopPane
                        /\ progress_file' = Nothing
                   ELSE UNCHANGED <<instruction_pane_id, progress_file>>
              \* lines 117-120
              /\ current_exercise' = Some(exercise)
              /\ completed_goals' = AllFalse(Len(exercise.goals))
              /\ current_goal_index' = 0
              /\ monitoring_active' = TRUE
              \* line 123 indexes goals[0]
              /\ pc' = IF exercise.goals = << >> THEN "panicked" ELSE "idle"
              /\ result' = IF exercise.goals = << >> THEN NoResult ELSE Ok("started")

(***************************************************************************)
(* monitor_progress (lines 363-444)                                        *)
(***************************************************************************)
\* the caller enters monitor_progress; the locals are fresh
MonitorEnter ==
    /\ pc = "idle"
    /\ pc' = "monitoring"
    /\ result' = NoResult
    /\ current_state' = DefaultState
    /\ sample_source' = "none"
    /\ evaluated' = {}
    /\ UNCHANGED <<session, progress_file, calls, menu_call, game>>

\* the loop condition is false (370): Ok(Incomplete) (443)
MonitorExitIncomplete ==
    /\ pc = "monitoring"
    /\ ~ monitoring_active
    /\ pc' = "returned"
    /\ result' = Ok("Incomplete")
    /\ UNCHANGED <<session, progress_file, iteration, calls, menu_call, game>>

\* lines 380-393: the goal at current_goal_index is converted and checked.
\*   out: "none" (no goal left), "err" / "panic" (conversion), "no", "achieved"
Transition(out, index, completed, evald) ==
    [out |-> out, index |-> index, completed |-> completed, evaluated |-> evald]

\* variant: every consecutive goal the sample satisfies is taken at once
RECURSIVE CheckGoalsGreedy(_, _, _, _)
CheckGoalsGreedy(exercise, index, completed, state) ==
    IF index < Len(exercise.goals)
      THEN LET conv == convert_goal_definition(exercise.goals[index + 1]) IN
           IF conv.res # "ok" THEN Transition(conv.res, index, completed, {})
           ELSE IF check_goal(conv.goal, state)
             THEN LET rest == CheckGoalsGreedy(exercise, index + 1,
                                               [completed EXCEPT ![index + 1] = TRUE], state)
                  IN Transition("achieved", rest.index, rest.completed,
                                rest.evaluated \cup {index})
           ELSE Transition("no", index, completed, {index})
      ELSE Transition("none", index, completed, {})

\* variant: the index advances but the goal is not marked
CheckGoalNoMark(exercise, index, completed, state) ==
    IF index < Len(exercise.goals)
      THEN LET conv == convert_goal_definition(exercise.goals[index + 1]) IN
           IF conv.res # "ok" THEN Transition(conv.res, index, completed, {})
           ELSE IF check_goal(conv.goal, state)
             THEN Transition("achieved", index + 1, completed, {index})
           ELSE Transition("no", index, completed, {index})
      ELSE Transition("none", index, completed, {})

CheckCurrentGoal(exercise, index, completed, state) ==
    IF index < Len(exercise.goals)
      THEN LET conv == convert_goal_definition(exercise.goals[index + 1]) IN
           IF conv.res # "ok" THEN Transition(conv.res, index, completed, {})
           ELSE IF check_goal(conv.goal, state)
             THEN Transition("achieved", index + 1,
                             [completed EXCEPT ![index + 1] = TRUE], {index})
           ELSE Transition("no", index, completed, {index})
      ELSE Transition("none", index, completed, {})

\* variant: the completion test is never true after a goal
AllGoalsDoneLate(exercise, index) == index > Len(exercise.goals)

\* variant: off by one in the completion test
AllGoalsDoneEarly(exercise, index) == index + 1 >= Len(exercise.goals)

\* line 397
AllGoalsDone(exercise, index) == index >= Len(exercise.goals)

\* variant: the 0-based index is written
ProgressValueZeroBased(exercise, index) ==
    IF AllGoalsDone(exercise, index) THEN CompletedToken ELSE GoalNumber(index)

\* what is written to the progress file once the index has been incremented
\* to `index` (lines 397-423)
ProgressValue(exercise, index) ==
    IF AllGoalsDone(exercise, index) THEN CompletedToken ELSE GoalNumber(index + 1)

\* update_instruction_pane (446-495): Err when no pane id is stored; the
\* results of the tmux commands are not looked at
update_instruction_pane(pane_id) == IF pane_id.some THEN "ok" ELSE "err"

\* One iteration of the loop.  file: what the status file holds when it is
\* polled (Vim's UpdateStatus() rewrites it every 100 ms, stop_exercise
\* removes it); progress_ok: the progress file can be opened for writing.
MonitorIter(file, progress_ok) ==
    /\ pc = "monitoring"
    /\ monitoring_active
    /\ LET read == read_vim_state_from_file(file)
           t == IF current_exercise.some
                  THEN CheckCurrentGoal(current_exercise.v, current_goal_index,
                                        completed_goals, read.state)
                  ELSE Transition("none", current_goal_index, completed_goals, {})
           done == AllGoalsDone(current_exercise.v, t.index)
           shown == update_instruction_pane(instruction_pane_id)
       IN
       /\ UNCHANGED <<current_exercise, monitoring_active, instruction_pane_id,
                      calls, menu_call, game>>
       /\ IF ~ read.ok
            THEN \* line 374: the error of the read is returned
                 /\ pc' = "returned"
                 /\ result' = Err("read_vim_state_from_file")
                 /\ UNCHANGED <<current_goal_index, completed_goals, last_state,
                                progress_file, iteration>>
            ELSE
                 /\ current_state' = read.state
                 /\ sample_source' = IF file.cond = "content" THEN "file" ELSE "default"
                 /\ evaluated' = t.evaluated
                 /\ current_goal_index' = t.index
                 /\ completed_goals' = t.completed
                 /\ CASE t.out = "err" ->
                           \* line 382
                           /\ pc' = "returned"
                           /\ result' = Err("convert_goal_definition")
                           /\ UNCHANGED <<last_state, progress_file>>
                      [] t.out = "panic" ->
                           /\ pc' = "panicked"
                           /\ result' = NoResult
                           /\ UNCHANGED <<last_state, progress_file>>
                      [] t.out = "achieved" /\ done ->
                           \* lines 397-413
                           /\ progress_file' =
                                  IF progress_ok THEN ProgressValue(current_exercise.v, t.index)
                                                 ELSE progress_file
                           /\ pc' = "returned"
                           /\ result' = Ok("Completed")
                           /\ UNCHANGED last_state
                      [] t.out = "achieved" /\ ~ done ->
                           \* lines 414-435
                           /\ progress_file' =
                                  IF progress_ok THEN ProgressValue(current_exercise.v, t.index)
                                                 ELSE progress_file
                           /\ IF shown = "err"
                                THEN \* line 426
                                     /\ pc' = "returned"
                                     /\ result' = Err("update_instruction_pane")
                                     /\ UNCHANGED last_state
                                ELSE /\ last_state' = Some(read.state)
                                     /\ UNCHANGED <<pc, result>>
                      [] t.out \in {"no", "none"} ->
                           \* line 440
                           /\ last_state' = Some(read.state)
                           /\ UNCHANGED <<progress_file, pc, result>>

(***************************************************************************)
(* stop_exercise (lines 756-774)                                           *)
(***************************************************************************)
StopExercise ==
    /\ pc \in {"idle", "returned"}
    /\ monitoring_active' = FALSE
    /\ pc' = "idle"
    /\ result' = Ok("stopped")
    \* the locals of monitor_progress are gone
    /\ current_state' = DefaultState
    /\ sample_source' = "none"
    /\ evaluated' = {}
    /\ UNCHANGED <<current_exercise, current_goal_index, completed_goals, last_state,
                   instruction_pane_id, progress_file, calls, menu_call, game>>

Next ==
    \/ NewSession /\ UNCHANGED continuous_mode
    \/ \E exercise \in Exercises, outcome \in StartOutcomes :
          StartExercise(exercise, outcome) /\ UNCHANGED continuous_mode
    \/ MonitorEnter /\ UNCHANGED continuous_mode
    \/ MonitorExitIncomplete /\ UNCHANGED continuous_mode
    \/ \E file \in StatusFiles, progress_ok \in BOOLEAN :
          MonitorIter(file, progress_ok) /\ UNCHANGED continuous_mode
    \/ StopExercise /\ UNCHANGED continuous_mode

Spec == Init /\ [][Next]_vars

(***************************************************************************)
(* GoalDetector::check_goal on its own (vim_state.rs 62-89): the goal and  *)
(* the state are drawn at the start, one step applies the function.        *)
(***************************************************************************)
CheckModes == {Normal, Insert, OperatorPending(<<"d">>), OperatorPending(<<"y">>)}
CheckTexts == {"", "hello world", "second line"}
CheckBuffers == {<< >>, <<"">>, <<"hello world", "second line">>}
CheckRegisterNames == {"0", "a"}
CheckRegisterTexts == {"", "yanked_text"}
CheckRegisters ==
    {NoRegisters} \cup {[r \in {"0"} |-> t] : t \in CheckRegisterTexts}

CheckGoals ==
    {Position(l, c) : l \in 0..MaxNum, c \in 0..MaxNum}
      \cup {Mode(m) : m \in CheckModes}
      \cup {TextContent(l, t) : l \in 0..MaxNum, t \in CheckTexts}
      \cup {RegisterContent(r, t) : r \in CheckRegisterNames, t \in CheckRegisterTexts}
      \cup {BufferChange}

CheckStates ==
    {VimState(m, l, c, NoOperator, b, regs) :
        m \in CheckModes, l \in 0..MaxNum, c \in 0..MaxNum,
        b \in CheckBuffers, regs \in CheckRegisters}

InitCheckGoal ==
    /\ NewSessionState
    /\ ElsewhereIdle
    /\ check_goal_call \in {Call(FALSE, g, s, FALSE) : g \in CheckGoals, s \in CheckStates}
    /\ NoCalls

ApplyCheckGoal ==
    /\ ~ check_goal_call.applied
    /\ check_goal_call' =
         Call(TRUE, check_goal_call.goal, check_goal_call.state,
              check_goal(check_goal_call.goal, check_goal_call.state))
    /\ UNCHANGED <<session, progress_file, pc, result, iteration,
                   convert_call, read_call, from_vim_mode_call, elsewhere>>

NextCheckGoal == ApplyCheckGoal

SpecCheckGoal == InitCheckGoal /\ [][NextCheckGoal]_vars

(***************************************************************************)
(* convert_goal_definition on its own (continuous_session.rs 665-725):     *)
(* any goal_type string with any serde_json::Value as target.              *)
(***************************************************************************)
ConvertKinds ==
    {"position", "mode", "text", "register", "buffer_change", "bogus", "Position"}
ConvertModeStrings ==
    {S_normal, S_insert, S_visual, S_visual_line, S_visual_block, S_command,
     S_operator_d, S_operator_y, S_operator_, S_operator, S_Normal, S_bogus, EmptyStr}
ConvertArrayEntries == {JNum(n) : n \in -1..(MaxNum + 1)} \cup {JNull}
ConvertArrays ==
    {<< >>, <<JNum(1), JNum(3), JNum(2)>>}
      \cup {<<e>> : e \in ConvertArrayEntries}
      \cup {<<e1, e2>> : e1 \in ConvertArrayEntries, e2 \in ConvertArrayEntries}
ConvertObjectKeys == {"line", "expected", "register"}
ConvertObjectValues == {JNum(1), JStr("Alice"), JNull}
ConvertObjects ==
    UNION {[keys -> ConvertObjectValues] : keys \in SUBSET ConvertObjectKeys}
ConvertTargets ==
    {JNull, JNum(1)}
      \cup {JStr(str) : str \in ConvertModeStrings}
      \cup {JArr(a) : a \in ConvertArrays}
      \cup {JObj(o) : o \in ConvertObjects}

InitConvert ==
    /\ NewSessionState
    /\ ElsewhereIdle
    /\ check_goal_call = NoCall
    /\ read_call = NoReadCall
    /\ from_vim_mode_call = NoFromVimModeCall
    /\ convert_call \in {ConvertCall(FALSE, ExerciseGoal(k, t), ConvPanic) :
                            k \in ConvertKinds, t \in ConvertTargets}

ApplyConvert ==
    /\ ~ convert_call.applied
    /\ convert_call' = ConvertCall(TRUE, convert_call.goal_def,
                                   convert_goal_definition(convert_call.goal_def))
    /\ UNCHANGED <<session, progress_file, pc, result, iteration,
                   check_goal_call, read_call, from_vim_mode_call, elsewhere>>

NextConvert == ApplyConvert

SpecConvert == InitConvert /\ [][NextConvert]_vars

(***************************************************************************)
(* read_vim_state_from_file on its own (continuous_session.rs 497-560):    *)
(* the file is absent, unreadable, or holds any lines.                     *)
(***************************************************************************)
\* what follows LINE: or COL: parses as an i32, or does not
RecordNumerals == -1..MaxNum
NumParts(key) == {NumPart(key, n) : n \in RecordNumerals} \cup {BadNumPart(key)}
ReadModePairs == ModePairs \cup {<<"v", "v">>, <<"zz", "zz">>}
\* a line that does not start with LINE:
OtherLine == <<Part("other", FALSE, 0, "")>>
ReadRecords ==
    {<<lp, cp, StrPart("MODE", m[1]), StrPart("DETAILED", m[2])>> :
        lp \in NumParts("LINE"), cp \in NumParts("COL"), m \in ReadModePairs}
      \cup {<<lp>> : lp \in NumParts("LINE")}
ReadFiles ==
    {FileMissing, FileUnreadable, FileContent(<< >>), FileContent(<<OtherLine>>)}
      \cup {FileContent(<<rec>>) : rec \in ReadRecords}
      \cup {FileContent(<<OtherLine, rec>>) : rec \in ReadRecords}

InitRead ==
    /\ NewSessionState
    /\ ElsewhereIdle
    /\ check_goal_call = NoCall
    /\ convert_call = NoConvertCall
    /\ from_vim_mode_call = NoFromVimModeCall
    /\ read_call \in {ReadCall(FALSE, file, ReadOk(DefaultState)) : file \in ReadFiles}

ApplyRead ==
    /\ ~ read_call.applied
    /\ read_call' = ReadCall(TRUE, read_call.file, read_vim_state_from_file(read_call.file))
    /\ UNCHANGED <<session, progress_file, pc, result, iteration,
                   check_goal_call, convert_call, from_vim_mode_call, elsewhere>>

NextRead == ApplyRead

SpecRead == InitRead /\ [][NextRead]_vars

(***************************************************************************)
(* VimMode::from_vim_mode on its own (vim_state.rs 25-36)                  *)
(***************************************************************************)
ModeCodes == {"n", "i", "v", "V", "c", "R", "s", ""} \cup CtrlVCodes
DetailedCodes == {"n", "no", "nov", "niI", "i", "v", "zz"}
Operators == {NoOperator, Some(<<"d">>), Some(<<"y">>)}

InitFromVimMode ==
    /\ NewSessionState
    /\ ElsewhereIdle
    /\ check_goal_call = NoCall
    /\ convert_call = NoConvertCall
    /\ read_call = NoReadCall
    /\ from_vim_mode_call \in
         {FromVimModeCall(FALSE, m, d, o, Normal) :
             m \in ModeCodes, d \in DetailedCodes, o \in Operators}

ApplyFromVimMode ==
    /\ ~ from_vim_mode_call.applied
    /\ from_vim_mode_call' =
         [from_vim_mode_call EXCEPT
            !.applied = TRUE,
            !.ret = from_vim_mode(from_vim_mode_call.mode,
                                  from_vim_mode_call.mode_detailed,
                                  from_vim_mode_call.operator)]
    /\ UNCHANGED <<session, progress_file, pc, result, iteration,
                   check_goal_call, convert_call, read_call, elsewhere>>

NextFromVimMode == ApplyFromVimMode

SpecFromVimMode == InitFromVimMode /\ [][NextFromVimMode]_vars

(***************************************************************************)
(* The chapter menu as a function of the loaded chapters and the typed     *)
(* line (game.rs show_chapter_menu 90-124 with start_chapter 130-149;      *)
(* main.rs run_continuous_mode 219-256 with start_continuous_chapter       *)
(* 266, 327-329).                                                          *)
(***************************************************************************)
\* ContentLoader::new (content.rs 47-62) and ContinuousContentLoader::new
\* (continuous_content.rs 33-61): the chapter files that exist are loaded
\* in the order 1..=8 and pushed; files is the set of the numbers of the
\* chapters that were loaded
load_chapters(files) ==
    LET n == Cardinality(files)
        order == CHOOSE s \in [1..n -> files] :
                    \A i, j \in 1..n : i < j => s[i] < s[j]
    IN [i \in 1..n |-> ChapterData(order[i], << >>)]

\* the loaders return Err when no chapter was loaded (content.rs 65-67)
LoadedSets == (SUBSET (1..MaxChapter)) \ {{}}

MenuInputs ==
    {InputEof, InputQuit, InputText}
       \cup {InputNumeral(n) : n \in (-1..(MaxChapter + 1)) \cup {256}}

InitMenu ==
    /\ NewSessionState
    /\ check_goal_call = NoCall
    /\ NoCalls
    /\ NoContinuousMode
    /\ NoGame
    /\ menu_call \in
         {MenuCall(FALSE, load_chapters(files), input, MenuOutcome("quit", 0)) :
             files \in LoadedSets, input \in MenuInputs}

ApplyMenu ==
    /\ ~ menu_call.applied
    /\ menu_call' =
         [menu_call EXCEPT
            !.applied = TRUE,
            !.ret = menu_select(menu_call.chapters, menu_call.input)]
    /\ UNCHANGED <<session, progress_file, pc, result, iteration, calls,
                   continuous_mode, game>>

NextMenu == ApplyMenu

SpecMenu == InitMenu /\ [][NextMenu]_vars

(***************************************************************************)
(* The session run on the built-in sample chapter                          *)
(* (continuous_content.rs 114-257), with the status records that place the *)
(* cursor where its position goals ask and the modes Vim reports.          *)
(***************************************************************************)
RegisterGoal(register, expected) ==
    ExerciseGoal("register", JObj([k \in {"register", "expected"} |->
                                     IF k = "register" THEN JStr(register) ELSE JStr(expected)]))

\* "hjkl移動マスター"
SampleMovement ==
    ContinuousExercise(<<PosGoal(0, 3), PosGoal(1, 3), PosGoal(1, 0), PosGoal(0, 0)>>,
                       "Sequential")
\* "モード切替とテキスト入力"
SampleInsert ==
    ContinuousExercise(<<PosGoal(1, 20), ModeGoal(S_insert),
                         TextGoal(1, "  console.log('Hello, ' + name);"),
                         ModeGoal(S_normal)>>, "Sequential")
\* "削除とヤンク操作"
SampleDeleteYank ==
    ContinuousExercise(<<PosGoal(0, 13), ModeGoal(S_operator_d),
                         RegisterGoal("0", "Alice"), PosGoal(1, 13),
                         TextGoal(1, "const new_name = 'Alice';")>>, "Sequential")
SampleChapter == {SampleMovement, SampleInsert, SampleDeleteYank}

SampleStatusFiles ==
    {FileMissing}
      \cup {FileContent(<<StatusLine(l, c, m[1], m[2])>>) :
               l \in {1, 2}, c \in {1, 4, 14, 21}, m \in ModePairs}

NextSampleChapter ==
    \/ NewSession /\ UNCHANGED continuous_mode
    \/ \E exercise \in SampleChapter, outcome \in {"tmux_ok", "rpc_ok"} :
          StartExercise(exercise, outcome) /\ UNCHANGED continuous_mode
    \/ MonitorEnter /\ UNCHANGED continuous_mode
    \/ MonitorExitIncomplete /\ UNCHANGED continuous_mode
    \/ \E file \in SampleStatusFiles : MonitorIter(file, TRUE) /\ UNCHANGED continuous_mode
    \/ StopExercise /\ UNCHANGED continuous_mode

SpecSampleChapter == Init /\ [][NextSampleChapter]_vars

(***************************************************************************)
(* One run of the monitoring loop: a fresh session starts one exercise and *)
(* calls monitor_progress once.  The loop polls again after every sleep of *)
(* 100 ms (line 371), so an iteration that can be taken is taken.          *)
(***************************************************************************)
StartOnce ==
    /\ ~ current_exercise.some
    /\ \E exercise \in Exercises, outcome \in StartOutcomes : StartExercise(exercise, outcome)
    /\ UNCHANGED continuous_mode

MonitorOnce ==
    /\ result = Ok("started")
    /\ MonitorEnter
    /\ UNCHANGED continuous_mode

Poll ==
    /\ \E file \in StatusFiles, progress_ok \in BOOLEAN : MonitorIter(file, progress_ok)
    /\ UNCHANGED continuous_mode

NextMonitorRun == StartOnce \/ MonitorOnce \/ Poll

SpecMonitorRun == Init /\ [][NextMonitorRun]_vars /\ WF_vars(Poll)

(***************************************************************************)
(* main.rs : run_continuous_mode (the chapter menu, lines 209-257) and     *)
(* start_continuous_chapter (262-332), which drives one session through    *)
(* the exercises of a chapter.                                             *)
(***************************************************************************)
\* the chapters the loader holds
LoadedContinuous ==
    << ChapterData(1, <<SeqOne, SeqSameSample>>),
       ChapterData(2, <<BadMode>>),
       ChapterData(3, << >>) >>

ContinuousInputs ==
    {InputEof, InputQuit, InputText} \cup {InputNumeral(n) : n \in 0..(MaxChapter + 1)}

\* everything but the variables of run_continuous_mode
session_side == <<session, progress_file, pc, result, iteration, calls, menu_call, game>>

InitContinuousMode ==
    /\ NewSessionState
    /\ check_goal_call = NoCall
    /\ NoCalls
    /\ menu_call = NoMenuCall
    /\ NoGame
    /\ chapter_pc = "menu"
    /\ chapter = << >>
    /\ exercise_index = 0
    /\ stdin_eof = FALSE

\* one pass of the menu loop (209-257); a chapter that is found gets a new
\* session (274-275)
ContinuousMenu(input) ==
    /\ chapter_pc = "menu"
    /\ stdin_eof => input = InputEof
    /\ stdin_eof' = (input = InputEof)
    /\ LET sel == menu_select(LoadedContinuous, input) IN
       CASE sel.kind = "quit" ->
              /\ chapter_pc' = "exited"
              /\ UNCHANGED <<chapter, exercise_index, session_side>>
         [] sel.kind \in {"invalid", "not_found"} ->
              \* the menu is shown again (240-248, 327-329)
              UNCHANGED <<chapter_pc, chapter, exercise_index, session_side>>
         [] sel.kind = "start" ->
              /\ NewSession
              /\ chapter' = get_chapter(LoadedContinuous, sel.number).v.exercises
              /\ exercise_index' = 0
              /\ chapter_pc' = "loop"

\* the head of the for loop and start_exercise(..)? (278-292)
ChapterLoop(outcome) ==
    /\ chapter_pc = "loop"
    /\ UNCHANGED <<chapter, exercise_index, stdin_eof>>
    /\ IF exercise_index >= Len(chapter)
         THEN /\ chapter_pc' = "returned"
              /\ UNCHANGED session_side
         ELSE /\ StartExercise(chapter[exercise_index + 1], outcome)
              /\ chapter_pc' = CASE pc' = "aborted" -> "returned"
                                  [] pc' = "panicked" -> "panicked"
                                  [] OTHER -> "monitor"

\* session.monitor_progress()? (295): the call, and one iteration of its loop
ChapterMonitorEnter ==
    /\ chapter_pc = "monitor"
    /\ MonitorEnter
    /\ UNCHANGED continuous_mode

ChapterMonitorIter(file, progress_ok) ==
    /\ chapter_pc = "monitor"
    /\ MonitorIter(file, progress_ok)
    /\ UNCHANGED <<chapter, exercise_index, stdin_eof>>
    /\ chapter_pc' = CASE pc' = "panicked" -> "panicked"
                        [] pc' = "returned" /\ result'.kind = "Err" -> "returned"
                        [] pc' = "returned" /\ result'.kind # "Err" -> "match"
                        [] OTHER -> "monitor"

\* the arms of the match (296-324): each calls stop_exercise
ChapterMatch ==
    /\ chapter_pc = "match"
    /\ StopExercise
    /\ UNCHANGED <<chapter, stdin_eof>>
    /\ IF result = Ok("Completed") /\ exercise_index < Len(chapter) - 1
         THEN /\ exercise_index' = exercise_index + 1
              /\ chapter_pc' = "loop"
         ELSE /\ chapter_pc' = "returned"
              /\ UNCHANGED exercise_index

\* start_continuous_chapter has returned; its result is dropped (223, 237)
ChapterReturn ==
    /\ chapter_pc = "returned"
    /\ chapter_pc' = "menu"
    /\ UNCHANGED <<chapter, exercise_index, stdin_eof, session_side>>

NextContinuousMode ==
    \/ \E input \in ContinuousInputs : ContinuousMenu(input)
    \/ \E outcome \in StartOutcomes : ChapterLoop(outcome)
    \/ ChapterMonitorEnter
    \/ \E file \in StatusFiles, progress_ok \in BOOLEAN : ChapterMonitorIter(file, progress_ok)
    \/ ChapterMatch
    \/ ChapterReturn

\* the program is one thread: a step that can be taken is taken
SpecContinuousMode ==
    InitContinuousMode /\ [][NextContinuousMode]_vars /\ WF_vars(NextContinuousMode)

(***************************************************************************)
(* game.rs : step mode.  The main thread runs show_chapter_menu,           *)
(* start_chapter, game_loop and run_split_screen_neovim; every session     *)
(* spawns a monitor_neovim_status thread that is never joined.  Neovim     *)
(* rewrites the status file when the cursor moves; the shell loop of the   *)
(* top pane removes the success flag once it has seen it.                  *)
(***************************************************************************)
LoadedChapters ==
    << ChapterData(1, << ExerciseData(<< StepData(Some(<<0, 1>>)), StepData(Some(<<1, 0>>)) >>),
                         ExerciseData(<< >>),
                         ExerciseData(<< StepData(NoCursor) >>) >>),
       ChapterData(2, << >>),
       ChapterData(4, << ExerciseData(<< StepData(Some(<<0, 0>>)) >>) >>) >>

GameInputs ==
    {InputEof, InputQuit, InputText} \cup {InputNumeral(n) : n \in 0..(MaxChapter + 1)}

\* where Neovim can report the cursor (1-based line and column)
CursorPositions == {<<1, 1>>, <<1, 2>>, <<2, 1>>}

\* everything but the variables of step mode
outside_game == <<session, progress_file, pc, result, iteration, calls, menu_call,
                  continuous_mode>>

InitGame ==
    /\ NewSessionState
    /\ check_goal_call = NoCall
    /\ NoCalls
    /\ menu_call = NoMenuCall
    /\ NoContinuousMode
    /\ current_chapter = NoChapter
    /\ current_exercise_index = 0
    /\ current_step_index = 0
    /\ game_pc = "menu"
    /\ tmux_available \in BOOLEAN
    /\ vim_tutorial_status = Absent
    /\ vim_tutorial_success = FALSE
    /\ monitors = [t \in 1..MaxMonitors |-> NoMonitor]

\* show_chapter_menu (78-128) and start_chapter up to the call of game_loop
\* (130-143); when no chapter is found start_chapter returns and run ends
ShowChapterMenu(input) ==
    /\ game_pc = "menu"
    /\ UNCHANGED <<tmux_available, vim_tutorial_status, vim_tutorial_success, monitors,
                   outside_game>>
    /\ LET sel == menu_select(LoadedChapters, input) IN
       CASE sel.kind \in {"quit", "not_found"} ->
              /\ game_pc' = "exited"
              /\ UNCHANGED <<current_chapter, current_exercise_index, current_step_index>>
         [] sel.kind = "invalid" ->
              UNCHANGED <<game_pc, current_chapter, current_exercise_index,
                          current_step_index>>
         [] sel.kind = "start" ->
              /\ current_chapter' = get_chapter(LoadedChapters, sel.number)
              /\ current_exercise_index' = 0
              /\ current_step_index' = 0
              /\ game_pc' = "loop"

\* line 153 and line 172
ExercisesExhausted(chapter_data, exercise_i) == exercise_i >= Len(chapter_data.exercises)
StepsExhausted(exercise, step_i) == step_i >= Len(exercise.steps)

\* variant: a finished session skips a step
AfterSessionSkipping(step_i) == step_i + 2

\* line 231
AfterSession(step_i) == step_i + 1

\* the head of the while loop of game_loop (152-228)
GameLoop ==
    /\ game_pc = "loop"
    /\ current_chapter.some
    /\ UNCHANGED <<tmux_available, vim_tutorial_status, vim_tutorial_success, monitors,
                   outside_game>>
    /\ IF ExercisesExhausted(current_chapter.v, current_exercise_index)
         THEN \* 161-167
              /\ current_chapter' = NoChapter
              /\ current_exercise_index' = 0
              /\ current_step_index' = 0
              /\ game_pc' = "menu"
         ELSE IF StepsExhausted(current_chapter.v.exercises[current_exercise_index + 1],
                                current_step_index)
         THEN \* 173-177
              /\ current_exercise_index' = current_exercise_index + 1
              /\ current_step_index' = 0
              /\ UNCHANGED <<current_chapter, game_pc>>
         ELSE \* the step is shown and run_interactive_neovim is called
              /\ game_pc' = "step"
              /\ UNCHANGED <<current_chapter, current_exercise_index, current_step_index>>

CurrentStep ==
    current_chapter.v.exercises[current_exercise_index + 1].steps[current_step_index + 1]

\* line 640
TargetPosition(step) == <<step.cursor_end.v[1] + 1, step.cursor_end.v[2] + 1>>

FreeMonitors == {t \in 1..MaxMonitors : ~ monitors[t].alive}
NewMonitor(step) ==
    [alive |-> TRUE, target |-> TargetPosition(step), last_position |-> <<1, 1>>,
     success_triggered |-> FALSE, at |-> "read"]

\* run_interactive_neovim (239-256) and run_split_screen_neovim up to the
\* attach (260-590).  outcome: "ok", or "setup_err" (a tmux command fails)
RunInteractiveNeovim(outcome) ==
    /\ game_pc = "step"
    /\ UNCHANGED <<current_chapter, current_exercise_index, current_step_index,
                   tmux_available, vim_tutorial_status, outside_game>>
    /\ IF ~ tmux_available
         THEN \* Ok(false) (249-251): game_loop goes round with nothing changed
              /\ game_pc' = "loop"
              /\ UNCHANGED <<vim_tutorial_success, monitors>>
         ELSE IF outcome = "setup_err"
         THEN \* 347-372: the error leaves game_loop and the program
              /\ game_pc' = "failed"
              /\ UNCHANGED <<vim_tutorial_success, monitors>>
         ELSE \* the flag is removed (416), Neovim is launched (457), the
              \* monitor is spawned (515); it returns at once without a
              \* cursor_end (642)
              /\ vim_tutorial_success' = FALSE
              /\ IF CurrentStep.cursor_end.some
                   THEN /\ FreeMonitors # {}
                        /\ monitors' =
                             [monitors EXCEPT
                                ![CHOOSE t \in FreeMonitors : \A u \in FreeMonitors : t <= u] =
                                    NewMonitor(CurrentStep)]
                   ELSE UNCHANGED monitors
              /\ game_pc' = "session"

\* Neovim's UpdateStatus() (286-299) writes the cursor position
NvimWrites(position) ==
    /\ game_pc = "session"
    /\ vim_tutorial_status' = [exists |-> TRUE, position |-> position]
    /\ UNCHANGED <<current_chapter, current_exercise_index, current_step_index, game_pc,
                   tmux_available, vim_tutorial_success, monitors, outside_game>>

\* the shell loop of the top pane (419): it sees the flag and removes it
TopPaneSeesFlag ==
    /\ game_pc = "session"
    /\ vim_tutorial_success
    /\ vim_tutorial_success' = FALSE
    /\ UNCHANGED <<current_chapter, current_exercise_index, current_step_index, game_pc,
                   tmux_available, vim_tutorial_status, monitors, outside_game>>

\* the attach returns (588-600): the user has left Neovim.  Clean-up
\* (602-615), Ok(true) (624), and game_loop's increment (230-233)
SessionEnds(outcome) ==
    /\ game_pc = "session"
    /\ UNCHANGED <<current_chapter, current_exercise_index, tmux_available, monitors,
                   outside_game>>
    /\ IF outcome = "attach_err"
         THEN /\ game_pc' = "failed"
              /\ UNCHANGED <<current_step_index, vim_tutorial_status, vim_tutorial_success>>
         ELSE /\ vim_tutorial_status' = Absent
              /\ vim_tutorial_success' = FALSE
              /\ current_step_index' = AfterSession(current_step_index)
              /\ game_pc' = "loop"

Running == game_pc \notin {"exited", "failed"}

\* monitor_neovim_status, the read of the loop (646-699)
MonitorRead(t) ==
    /\ Running
    /\ monitors[t].alive
    /\ monitors[t].at = "read"
    /\ UNCHANGED <<current_chapter, current_exercise_index, current_step_index, game_pc,
                   tmux_available, vim_tutorial_status, outside_game>>
    /\ LET m == monitors[t]
           moved == vim_tutorial_status.exists /\ vim_tutorial_status.position # m.last_position
           reached == moved /\ vim_tutorial_status.position = m.target
                            /\ ~ m.success_triggered
       IN /\ monitors' =
               [monitors EXCEPT
                  ![t] = [m EXCEPT
                            !.last_position = IF moved THEN vim_tutorial_status.position ELSE @,
                            !.success_triggered = IF reached THEN TRUE ELSE @,
                            !.at = "exists"]]
          /\ vim_tutorial_success' = IF reached THEN TRUE ELSE vim_tutorial_success

\* after the sleep: the thread ends when the status file is gone (704-707)
MonitorExists(t) ==
    /\ Running
    /\ monitors[t].alive
    /\ monitors[t].at = "exists"
    /\ monitors' = [monitors EXCEPT
                      ![t] = IF vim_tutorial_status.exists THEN [@ EXCEPT !.at = "read"]
                             ELSE NoMonitor]
    /\ UNCHANGED <<current_chapter, current_exercise_index, current_step_index, game_pc,
                   tmux_available, vim_tutorial_status, vim_tutorial_success, outside_game>>

\* the steps of the main thread
MainThread ==
    \/ \E input \in GameInputs : ShowChapterMenu(input)
    \/ GameLoop
    \/ \E outcome \in {"ok", "setup_err"} : RunInteractiveNeovim(outcome)
    \/ \E outcome \in {"ok", "attach_err"} : SessionEnds(outcome)

NextGame ==
    \/ MainThread
    \/ \E position \in CursorPositions : NvimWrites(position)
    \/ TopPaneSeesFlag
    \/ \E t \in 1..MaxMonitors : MonitorRead(t)
    \/ \E t \in 1..MaxMonitors : MonitorExists(t)

\* game_loop runs without waiting: its steps are taken when they can be
SpecGame == InitGame /\ [][NextGame]_vars /\ WF_vars(GameLoop \/ \E outcome \in {"ok", "setup_err"} : RunInteractiveNeovim(outcome))

(***************************************************************************)
(* Properties                                                              *)
(***************************************************************************)
Goals == current_exercise.v.goals
Started == current_exercise.some
Flow(f) == Started /\ current_exercise.v.flow_type = f
\* the monitor has polled at least once in the current call
Polled == pc \in {"monitoring", "returned"} /\ sample_source # "none"
\* a step of the monitoring loop starts in a state like this
InLoop == pc = "monitoring" /\ monitoring_active

\* goal_def compiles and the compiled goal is satisfied by state
Satisfies(goal_def, state) ==
    LET conv == convert_goal_definition(goal_def) IN
    conv.res = "ok" /\ check_goal(conv.goal, state)

AllCompleted == \A i \in 1..Len(completed_goals) : completed_goals[i]

\* C1: Sequential flow: an iteration of monitor_progress evaluates only
\* goals[current_goal_index]; if the sample satisfies it, its completed flag
\* becomes true and the index grows by exactly 1, otherwise both stay; the
\* index never decreases, never grows by more than 1 per sample, and no goal
\* is skipped, also when the sample satisfies the following goals too.
C1_SequentialStep ==
    [][ (InLoop /\ Flow("Sequential")) =>
          LET i == current_goal_index IN
          /\ evaluated' \subseteq {i}
          /\ IF i < Len(Goals) /\ Satisfies(Goals[i + 1], current_state')
               THEN /\ current_goal_index' = i + 1
                    /\ completed_goals' = [completed_goals EXCEPT ![i + 1] = TRUE]
                    /\ evaluated' = {i}
               ELSE /\ current_goal_index' = i
                    /\ completed_goals' = completed_goals ]_vars

\* a sample satisfied goal 0 and also satisfies goal 1, which is now active
C1_Witness ==
    /\ current_exercise = Some(SeqSameSample)
    /\ pc = "monitoring"
    /\ current_goal_index = 1
    /\ evaluated = {0}
    /\ Satisfies(Goals[2], current_state)
    /\ Satisfies(Goals[3], current_state)

\* C2: in a started Sequential exercise completed_goals[i] is true for all
\* i < current_goal_index and false for all i >= current_goal_index.
C2_CompletedPrefix ==
    Flow("Sequential") =>
        /\ Len(completed_goals) = Len(Goals)
        /\ \A i \in 0..(Len(Goals) - 1) :
               completed_goals[i + 1] = (i < current_goal_index)

C2_Witness ==
    /\ current_exercise = Some(SeqThree)
    /\ current_goal_index = 2
    /\ completed_goals = <<TRUE, TRUE, FALSE>>

\* C3: monitor_progress returns Completed exactly on the sample that
\* satisfies the last goal: then current_goal_index = goals.len() and every
\* flag is true; Completed is never returned while the index is below
\* goals.len().  With 3 goals the index is 1, 2, 3 after the 1st, 2nd, 3rd
\* satisfied goal, and completed is [true, false, false] after the 1st.
C3_CompletedOnLastGoal ==
    /\ result.kind = "Completed" =>
         /\ Started /\ pc = "returned"
         /\ current_goal_index = Len(Goals)
         /\ AllCompleted
         /\ evaluated = {Len(Goals) - 1}
         /\ Satisfies(Goals[Len(Goals)], current_state)
    /\ (Started /\ Polled /\ evaluated # {}
        /\ current_goal_index = Len(Goals)) => result.kind = "Completed"
    /\ (Started /\ Len(Goals) = 3) =>
         /\ current_goal_index = 1 => completed_goals = <<TRUE, FALSE, FALSE>>
         /\ (Polled /\ evaluated = {0}) => current_goal_index \in {0, 1}
         /\ (Polled /\ evaluated = {1}) => current_goal_index \in {1, 2}
         /\ (Polled /\ evaluated = {2}) => current_goal_index \in {2, 3}

C3_Witness ==
    /\ current_exercise = Some(SeqThree)
    /\ result.kind = "Completed"
    /\ current_goal_index = 3

\* C4: AnyOrder flow: each sample marks every not-yet-completed goal that it
\* satisfies (so that goals discovered in the order 2, 0, 1 complete the
\* exercise on the third sample).
C4_AnyOrderMarksEverySatisfiedGoal ==
    (Flow("AnyOrder") /\ Polled /\ result.kind # "Err") =>
        \A i \in 0..(Len(Goals) - 1) :
            Satisfies(Goals[i + 1], current_state) => completed_goals[i + 1]

\* C5: Parallel flow: the monitor reaches Completed on a sample if and only
\* if every goal of the exercise evaluates true on that one sample.
C5_ParallelCompletesIffAllTrue ==
    (Flow("Parallel") /\ Polled) =>
        (result.kind = "Completed"
           <=> \A i \in 0..(Len(Goals) - 1) : Satisfies(Goals[i + 1], current_state))

\* C6: goal definitions are compiled at load time and never while polling:
\* monitor_progress never fails because of a goal-compilation error.
C6_NoCompileErrorWhilePolling ==
    result # Err("convert_goal_definition")

\* C7: if a goal definition of an exercise does not compile, the exercise
\* does not start: none of its goals is ever marked completed, the index
\* never advances, and no progress value is published for it.
HasUncompilableGoal(exercise) ==
    \E i \in 1..Len(exercise.goals) : convert_goal_definition(exercise.goals[i]).res # "ok"

C7_UncompilableExerciseMakesNoProgress ==
    [][ (current_exercise'.some /\ HasUncompilableGoal(current_exercise'.v)) =>
          /\ current_goal_index' = 0
          /\ \A i \in 1..Len(completed_goals') : ~ completed_goals'[i]
          /\ progress_file' \in {progress_file, Nothing} ]_vars

\* C8: publication to the display cannot fail the loop: with no instruction
\* pane id recorded, monitor_progress continues after a goal is satisfied
\* and does not return an error.
C8_DisplayFailureDoesNotFailLoop ==
    result # Err("update_instruction_pane")

\* C9: a sampler failure (status file missing or unreadable) is never
\* surfaced: the read yields a snapshot and monitor_progress does not
\* return an error because of it.
C9_SamplerFailureNotSurfaced ==
    /\ result # Err("read_vim_state_from_file")
    /\ (InLoop /\ sample_source = "default") => last_state = Some(current_state)

\* the file could not be read and the loop goes on
C9_Witness ==
    /\ pc = "monitoring"
    /\ sample_source = "default"
    /\ Started
    /\ current_goal_index < Len(Goals)

\* C10: when the sampler fails on an iteration and the iteration before it
\* obtained a snapshot from the file, the transition is evaluated against
\* that last-known-good snapshot; the default snapshot is used only when no
\* snapshot has been obtained yet.
C10_FailureUsesLastKnownGood ==
    [][ (InLoop /\ sample_source = "file" /\ sample_source' = "default") =>
          current_state' = current_state ]_vars

\* C11: monitor_progress returns Incomplete only when monitoring_active is
\* found false before the exercise completed; Incomplete is never derived
\* from goal state, and a completed exercise is never reported as Incomplete.
C11_IncompleteOnlyByCancellation ==
    result.kind = "Incomplete" =>
        /\ pc = "returned"
        /\ ~ monitoring_active
        /\ evaluated = {}
        /\ ~ (Started /\ current_goal_index >= Len(Goals))

\* C13: one progress value is published per goal transition: once the k-th
\* goal of n is satisfied the progress file holds k+1 when k < n and the
\* token completed when k = n; a sample that satisfies no goal publishes
\* nothing.
PublishedAfter(k, n) == IF k < n THEN GoalNumber(k + 1) ELSE CompletedToken

C14_StartEstablishesInitialProgress ==
    /\ [] ( (pc = "idle" /\ result = NoResult) =>
              (~ Started /\ current_goal_index = 0) )
    /\ [][ (pc = "idle" /\ result' = Ok("started")) =>
              /\ current_exercise'.some
              /\ current_goal_index' = 0
              /\ Len(completed_goals') = Len(current_exercise'.v.goals)
              /\ \A i \in 1..Len(completed_goals') : ~ completed_goals'[i]
              /\ monitoring_active' ]_vars

\* an exercise was started in a session whose previous exercise was
\* monitored and completed
C14_Witness ==
    /\ pc = "idle"
    /\ result = Ok("started")
    /\ last_state.some
    /\ progress_file = CompletedToken
    /\ current_goal_index = 0
    /\ ~ AllCompleted

\* C15: in a started exercise 0 <= current_goal_index <= goals.len() and
\* completed_goals.len() = goals.len(), so the index used by the monitoring
\* loop for goals and completed_goals is in range.
C15_IndexAndFlagsInRange ==
    Started =>
        /\ current_goal_index \in 0..Len(Goals)
        /\ Len(completed_goals) = Len(Goals)
        /\ (InLoop /\ current_goal_index < Len(Goals)) =>
              /\ (current_goal_index + 1) \in DOMAIN Goals
              /\ (current_goal_index + 1) \in DOMAIN completed_goals

\* the index has reached goals.len() in an exercise of two goals
C15_Witness ==
    /\ Started /\ Len(Goals) = 2
    /\ current_goal_index = Len(Goals)
    /\ Len(completed_goals) = 2

\* C16: an exercise with zero goals is complete from the start:
\* start_exercise succeeds on it and monitor_progress returns Completed
\* without any sample.
C16_ZeroGoalsCompleteFromStart ==
    (Started /\ Len(Goals) = 0) =>
        /\ pc # "panicked"
        /\ pc = "returned" => result.kind = "Completed"

\* check_goal has been applied to a goal of this kind
CallOf(kind) == check_goal_call.applied /\ check_goal_call.goal.kind = kind

\* C17: for a Position{line, col} goal check_goal is true iff
\* cursor_line = line and cursor_col = col; a coordinate off by one gives
\* false.
C17_PositionExactMatch ==
    CallOf("Position") =>
        LET g == check_goal_call.goal
            s == check_goal_call.state
        IN /\ check_goal_call.ret = (s.cursor_line = g.line /\ s.cursor_col = g.col)
           /\ (s.cursor_line \in {g.line - 1, g.line + 1}
                 \/ s.cursor_col \in {g.col - 1, g.col + 1}) => ~ check_goal_call.ret

\* the line matches and the column is off by one
C17_Witness ==
    /\ CallOf("Position")
    /\ check_goal_call.goal = Position(1, 1)
    /\ check_goal_call.state.cursor_line = 1
    /\ check_goal_call.state.cursor_col = 2
    /\ ~ check_goal_call.ret

\* C18: for a Mode(expected) goal check_goal is true iff the mode of the
\* state equals expected, operator included: Mode(OperatorPending("d")) is
\* satisfied by OperatorPending("d"), not by OperatorPending("y") or Normal.
C18_ModeStructuralEquality ==
    CallOf("Mode") =>
        LET g == check_goal_call.goal
            s == check_goal_call.state
        IN /\ check_goal_call.ret = (s.mode.tag = g.mode.tag /\ s.mode.op = g.mode.op)
           /\ (g.mode = OperatorPending(<<"d">>) /\ s.mode = OperatorPending(<<"d">>))
                 => check_goal_call.ret
           /\ (g.mode = OperatorPending(<<"d">>)
                 /\ s.mode \in {OperatorPending(<<"y">>), Normal})
                 => ~ check_goal_call.ret

\* operator d expected, operator y pending
C18_Witness ==
    /\ CallOf("Mode")
    /\ check_goal_call.goal = Mode(OperatorPending(<<"d">>))
    /\ check_goal_call.state.mode = OperatorPending(<<"y">>)
    /\ ~ check_goal_call.ret

\* C19: for a TextContent{line, expected} goal check_goal is true iff
\* line < len(buffer_content) and buffer_content[line] = expected; a line
\* out of range gives false.
C19_TextContentInRangeAndEqual ==
    CallOf("TextContent") =>
        LET g == check_goal_call.goal
            s == check_goal_call.state
        IN /\ check_goal_call.ret \in BOOLEAN
           /\ check_goal_call.ret =
                (g.line < Len(s.buffer_content)
                   /\ s.buffer_content[g.line + 1] = g.expected)
           /\ g.line >= Len(s.buffer_content) => ~ check_goal_call.ret

\* the line after the last line of a buffer of two lines
C19_Witness ==
    /\ CallOf("TextContent")
    /\ Len(check_goal_call.state.buffer_content) = 2
    /\ check_goal_call.goal.line = 2
    /\ ~ check_goal_call.ret

\* C20: for a RegisterContent{register, expected} goal check_goal is true
\* iff register is a key of registers and its content equals expected; an
\* absent register gives false.
C20_RegisterPresentAndEqual ==
    CallOf("RegisterContent") =>
        LET g == check_goal_call.goal
            s == check_goal_call.state
        IN /\ check_goal_call.ret =
                (g.register \in DOMAIN s.registers
                   /\ s.registers[g.register] = g.expected)
           /\ g.register \notin DOMAIN s.registers => ~ check_goal_call.ret

\* the register is absent and the empty string is expected
C20_Witness ==
    /\ CallOf("RegisterContent")
    /\ check_goal_call.goal.register \notin DOMAIN check_goal_call.state.registers
    /\ check_goal_call.goal.expected = ""
    /\ ~ check_goal_call.ret

\* C21: a BufferChange goal is true against every state, so in the
\* monitoring loop an active BufferChange goal is completed by the very next
\* sample, whatever the sample contains.
C21_BufferChangeCompletedOnNextSample ==
    [][ (InLoop /\ Started /\ current_goal_index < Len(Goals)
           /\ Goals[current_goal_index + 1].goal_type = "buffer_change") =>
          /\ current_goal_index' = current_goal_index + 1
          /\ completed_goals'[current_goal_index + 1] ]_vars

\* the BufferChange goal was completed by a sample taken while the status
\* file could not be read
C21_Witness ==
    /\ current_exercise = Some(SeqSameSample)
    /\ Goals[3].goal_type = "buffer_change"
    /\ current_goal_index = 3
    /\ evaluated = {2}
    /\ sample_source = "default"
    /\ result.kind = "Completed"

\* convert_goal_definition has been applied to a goal of this goal_type
ConvertOf(kind) == convert_call.applied /\ convert_call.goal_def.goal_type = kind
ConvertGave(goal) == convert_call.ret.res = "ok" /\ convert_call.ret.goal = goal

\* C22: a goal of kind mode with a string target compiles to the mode named
\* by normal / insert / visual / visual_line / visual_block / command, to
\* Mode(OperatorPending(X)) for every string operator_<X>, and fails with
\* an unknown-mode error for every other string.
C22_ModeCompilation ==
    (ConvertOf("mode") /\ convert_call.goal_def.target.t = "string") =>
        LET str == convert_call.goal_def.target.s
            named == {S_normal, S_insert, S_visual, S_visual_line, S_visual_block,
                      S_command}
        IN /\ str = S_normal => ConvertGave(Mode(Normal))
           /\ str = S_insert => ConvertGave(Mode(Insert))
           /\ str = S_visual => ConvertGave(Mode(Visual))
           /\ str = S_visual_line => ConvertGave(Mode(VisualLine))
           /\ str = S_visual_block => ConvertGave(Mode(VisualBlock))
           /\ str = S_command => ConvertGave(Mode(Command))
           /\ str = S_operator_d => ConvertGave(Mode(OperatorPending(<<"d">>)))
           /\ (Len(str) >= 9 /\ SubSeq(str, 1, 9) = S_operator_) =>
                 ConvertGave(Mode(OperatorPending(SubSeq(str, 10, Len(str)))))
           /\ (str \notin named /\ ~ (Len(str) >= 9 /\ SubSeq(str, 1, 9) = S_operator_)) =>
                 /\ convert_call.ret.res = "err"
                 /\ convert_call.ret.msg = "Unknown mode"

\* operator_y was compiled
C22_Witness ==
    /\ ConvertOf("mode")
    /\ convert_call.goal_def.target = JStr(S_operator_y)
    /\ ConvertGave(Mode(OperatorPending(<<"y">>)))

\* the entry at index i (from 1) of array a as a non-negative number, else 0
EntryOr0(a, i) ==
    IF i <= Len(a) /\ a[i].t = "number" /\ a[i].n >= 0 THEN a[i].n ELSE 0

\* C23: a goal of kind position with an array target [line, col] compiles
\* to Position{line, col}; an entry that is missing or not a non-negative
\* number counts as 0 and a goal is still returned; a target that is not an
\* array gives an error.
C23_PositionCompilation ==
    ConvertOf("position") =>
        IF convert_call.goal_def.target.t = "array"
          THEN LET a == convert_call.goal_def.target.a
               IN ConvertGave(Position(EntryOr0(a, 1), EntryOr0(a, 2)))
          ELSE convert_call.ret.res = "err"

\* field k of object o as a non-negative number, else 0 / as a string, else ""
FieldNumOr0(o, k) ==
    IF k \in DOMAIN o /\ o[k].t = "number" /\ o[k].n >= 0 THEN o[k].n ELSE 0
FieldStrOrEmpty(o, k) ==
    IF k \in DOMAIN o /\ o[k].t = "string" THEN o[k].s ELSE ""

\* C24: a goal of kind text or register with an object target compiles for
\* every object: a missing line is 0 and a missing expected or register is
\* the empty string; missing fields never abort the compilation.
C24_TextAndRegisterCompilation ==
    (convert_call.applied /\ convert_call.goal_def.target.t = "object") =>
        LET o == convert_call.goal_def.target.o IN
        /\ ConvertOf("text") =>
              ConvertGave(TextContent(FieldNumOr0(o, "line"),
                                      FieldStrOrEmpty(o, "expected")))
        /\ ConvertOf("register") =>
              ConvertGave(RegisterContent(FieldStrOrEmpty(o, "register"),
                                          FieldStrOrEmpty(o, "expected")))

\* C25: a goal whose kind is none of position, mode, text, register,
\* buffer_change fails with an unknown-goal-kind error for every target, and
\* a goal of kind buffer_change compiles to BufferChange for every target.
C25_UnknownKindAndBufferChange ==
    convert_call.applied =>
        /\ convert_call.goal_def.goal_type
              \notin {"position", "mode", "text", "register", "buffer_change"} =>
              /\ convert_call.ret.res = "err"
              /\ convert_call.ret.msg = "Unknown goal type"
        /\ ConvertOf("buffer_change") => ConvertGave(BufferChange)

\* an unknown kind with a well-formed position target
C25_Witness ==
    /\ ConvertOf("bogus")
    /\ convert_call.goal_def.target = JArr(<<JNum(1), JNum(2)>>)
    /\ convert_call.ret.res = "err"

\* the file is a single record that starts with parsable LINE and COL fields
NumericRecord(file) ==
    /\ file.cond = "content"
    /\ Len(file.lines) = 1
    /\ Len(file.lines[1]) >= 2
    /\ file.lines[1][1].key = "LINE" /\ file.lines[1][1].ok
    /\ file.lines[1][2].key = "COL" /\ file.lines[1][2].ok

\* C26: a status record LINE:<n>,COL:<m>,... gives cursor_line = n-1 and
\* cursor_col = m-1 for all n, m >= 1, and for every integer in the record
\* (0 and negative values too) the coordinates are non-negative and do not
\* exceed the value written in the record.
C26_OneBasedToZeroBased ==
    (read_call.applied /\ NumericRecord(read_call.file)) =>
        LET n == read_call.file.lines[1][1].n
            m == read_call.file.lines[1][2].n
            state == read_call.ret.state
        IN /\ (n >= 1 /\ m >= 1) =>
                 (state.cursor_line = n - 1 /\ state.cursor_col = m - 1)
           /\ usize_at_most(state.cursor_line, n)
           /\ usize_at_most(state.cursor_col, m)

\* the mode codes from_vim_mode knows
KnownModeCodes == {"n", "i", "v", "V", "c"} \cup CtrlVCodes

\* the content has no LINE: record, or its LINE: record has a LINE, COL or
\* MODE field that cannot be parsed
Malformed(file) ==
    /\ file.cond = "content"
    /\ LET records == {i \in 1..Len(file.lines) :
                          file.lines[i] # << >> /\ file.lines[i][1].key = "LINE"}
       IN \/ records = {}
          \/ LET rec == file.lines[CHOOSE i \in records : \A j \in records : i <= j]
             IN \E k \in 1..Len(rec) :
                   \/ rec[k].key \in {"LINE", "COL"} /\ ~ rec[k].ok
                   \/ rec[k].key = "MODE" /\ rec[k].str \notin KnownModeCodes

\* C27: a status file that is absent, or whose content is malformed, yields
\* exactly the default snapshot: cursor (0,0), Normal mode, the empty
\* buffer, no registers.
C27_MalformedYieldsDefault ==
    (read_call.applied /\ (read_call.file.cond # "content" \/ Malformed(read_call.file))) =>
        /\ read_call.ret.ok
        /\ read_call.ret.state = DefaultState

\* C28: from_vim_mode maps (n, no, Some(op)) to OperatorPending(op),
\* (n, other) to Normal, i to Insert, v to Visual, V to VisualLine, a mode
\* containing Ctrl-V to VisualBlock, c to Command, and every other pair of
\* codes to Normal.
C28_FromVimModeTotal ==
    from_vim_mode_call.applied =>
        LET mode == from_vim_mode_call.mode
            mode_detailed == from_vim_mode_call.mode_detailed
            operator == from_vim_mode_call.operator
            ret == from_vim_mode_call.ret
        IN /\ (mode = "n" /\ mode_detailed = "no" /\ operator.some) =>
                 ret = OperatorPending(operator.v)
           /\ (mode = "n" /\ mode_detailed # "no") => ret = Normal
           /\ mode = "i" => ret = Insert
           /\ mode = "v" => ret = Visual
           /\ mode = "V" => ret = VisualLine
           /\ mode \in CtrlVCodes => ret = VisualBlock
           /\ mode = "c" => ret = Command
           /\ mode \notin KnownModeCodes => ret = Normal
           /\ ret.tag \in {"Normal", "Insert", "Visual", "VisualLine", "VisualBlock",
                            "OperatorPending", "Command"}

\* operator-pending with the operator d
C28_Witness ==
    /\ from_vim_mode_call.applied
    /\ from_vim_mode_call.mode = "n"
    /\ from_vim_mode_call.mode_detailed = "no"
    /\ from_vim_mode_call.operator = Some(<<"d">>)
    /\ from_vim_mode_call.ret = OperatorPending(<<"d">>)

\* C29: a sample that comes from a failure of the sampler (status file
\* missing or unreadable) never causes progress: on that iteration no goal
\* is marked completed, current_goal_index does not advance and no progress
\* value is published.
C29_FailureSampleMakesNoProgress ==
    [][ (InLoop /\ sample_source' = "default") =>
          /\ current_goal_index' = current_goal_index
          /\ completed_goals' = completed_goals
          /\ progress_file' = progress_file ]_vars

\* C30: every exercise of the built-in sample chapter can be completed:
\* for each goal that becomes active there is a status record whose
\* snapshot, as read_vim_state_from_file produces it, satisfies the goal
\* (the mode goal operator_d, the register goal and the text goals
\* included), so that monitor_progress can take the goals in order.
C30_SampleChapterCompletable ==
    (InLoop /\ Started /\ current_exercise.v \in SampleChapter
       /\ current_goal_index < Len(Goals)) =>
        \E file \in SampleStatusFiles :
            Satisfies(Goals[current_goal_index + 1], read_vim_state_from_file(file).state)


\* the latest poll gave check_goal goal number g (from 1) while it was the
\* active goal, with a sample that satisfies it
Delivered(exercise, g) ==
    /\ current_exercise = Some(exercise)
    /\ sample_source # "none"
    /\ (g - 1) \in evaluated
    /\ Satisfies(exercise.goals[g], current_state)

C32_StartedExerciseIsStopped ==
    (chapter_pc = "returned" /\ current_exercise.some) => ~ monitoring_active

\* C38: when standard input is at its end, run_continuous_mode eventually
\* returns (provided every chapter run it starts comes back to the menu).
C38_MenuTerminatesAtEof ==
    ([]<>(chapter_pc \in {"menu", "exited"})) =>
        [](stdin_eof => <>(chapter_pc = "exited"))


\* the exercise current_exercise_index points at, when there is one
CurrentExercise == current_chapter.v.exercises[current_exercise_index + 1]

\* C33: while a chapter is active in game_loop, current_exercise_index <=
\* exercises.len() and current_step_index <= steps.len() of the current
\* exercise; steps and exercises are visited in order with no skip (step
\* index +1 per finished session, exercise index +1 with the step index
\* back to 0 when the steps are exhausted); when the exercises are
\* exhausted the chapter is cleared and both indices are 0 before the menu
\* is shown.
C33_StepModeProgression ==
    /\ [](current_chapter.some =>
            /\ current_exercise_index <= Len(current_chapter.v.exercises)
            /\ current_exercise_index < Len(current_chapter.v.exercises) =>
                  current_step_index <= Len(CurrentExercise.steps))
    /\ [](game_pc = "menu" =>
            (~ current_chapter.some /\ current_exercise_index = 0
               /\ current_step_index = 0))
    /\ [][ IF current_chapter.some /\ current_chapter'.some
             THEN /\ current_chapter' = current_chapter
                  /\ \/ /\ current_exercise_index' = current_exercise_index
                         /\ current_step_index' = current_step_index
                     \/ /\ game_pc = "session"
                         /\ current_exercise_index' = current_exercise_index
                         /\ current_step_index' = current_step_index + 1
                     \/ /\ current_step_index = Len(CurrentExercise.steps)
                         /\ current_exercise_index' = current_exercise_index + 1
                         /\ current_step_index' = 0
           ELSE IF current_chapter.some
             THEN /\ current_exercise_index = Len(current_chapter.v.exercises)
                  /\ current_exercise_index' = 0 /\ current_step_index' = 0
                  /\ game_pc' = "menu"
           ELSE current_exercise_index' = 0 /\ current_step_index' = 0 ]_vars

\* chapter 1 has been worked through: its three exercises are exhausted
C33_Witness ==
    /\ current_chapter.some
    /\ current_chapter.v.number = 1
    /\ current_exercise_index = 3
    /\ current_step_index = 0
    /\ game_pc = "loop"

\* C34: game_loop makes progress or stops: when tmux is unavailable the
\* loop terminates or returns to the menu instead of repeating the same
\* step forever.
C34_NoTmuxLeavesTheLoop ==
    []((game_pc = "step" /\ ~ tmux_available) =>
          <>(game_pc \in {"menu", "exited", "failed"}))

\* C35: current_step_index is incremented only for a step whose target
\* position was observed by the monitor (the success flag was raised for
\* that step); ending the session without reaching the target does not
\* advance the step.
C35_StepAdvancesOnlyOnSuccess ==
    [][ (current_chapter.some /\ current_chapter' = current_chapter
           /\ current_exercise_index' = current_exercise_index
           /\ current_step_index' = current_step_index + 1) =>
          /\ CurrentStep.cursor_end.some
          /\ \E t \in 1..MaxMonitors :
                /\ monitors[t].alive
                /\ monitors[t].target = TargetPosition(CurrentStep)
                /\ monitors[t].success_triggered ]_vars

\* C36: at most one monitor_neovim_status thread polls the status file at
\* any time: when the monitor of a step is spawned the monitor of the
\* previous step has terminated, so a polling monitor always has the
\* target position of the current step.
C36_OneMonitorAtATime ==
    /\ Cardinality({t \in 1..MaxMonitors : monitors[t].alive}) <= 1
    /\ game_pc = "session" =>
          \A t \in 1..MaxMonitors :
              monitors[t].alive =>
                  /\ CurrentStep.cursor_end.some
                  /\ monitors[t].target = TargetPosition(CurrentStep)

\* C37: every loaded chapter can be started from the chapter menu: for every
\* loaded chapter with number c some menu input is accepted and starts
\* chapter c, and every input the menu accepts starts an existing chapter,
\* whatever set of chapter numbers was loaded.
C37_LoadedChaptersCanBeStarted ==
    menu_call.applied =>
        /\ \A i \in 1..Len(menu_call.chapters) :
              \E input \in MenuInputs :
                  menu_select(menu_call.chapters, input) =
                      MenuOutcome("start", menu_call.chapters[i].number)
        /\ menu_call.ret.kind \in {"start", "not_found"} =>
              /\ menu_call.ret.kind = "start"
              /\ get_chapter(menu_call.chapters, menu_call.ret.number).some

=============================================================================
